---------------------------- MODULE Spec2Model ----------------------------
(***************************************************************************)
(* Model of automation/domain-autoscale-integration.py: the                *)
(* DomainAutoscaleManager pipeline (fetch -> categorize -> assign ->       *)
(* verify -> save results -> set success -> notify) and the CLI entry      *)
(* point main().                                                           *)
(*                                                                         *)
(* The manager's self.results dictionary is the variable `results`.  The   *)
(* things the program does to the outside world are recorded in order in   *)
(* `trace` (function calls, audit records of log_agent_action, command     *)
(* executions, reads and writes of results["success"]), `reports` (the     *)
(* JSON records written by _save_results) and `pushed` (the status records *)
(* handed to the gcloud command by _notify_completion).                    *)
(***************************************************************************)
EXTENDS Integers, Sequences, FiniteSets, TLC

VARIABLES
    mode,           \* args.phase
    config,         \* self.config, as far as fetch_domains reads it
    pc,             \* position of the process in main / run_full_pipeline
    results,        \* self.results
    phase_results,  \* the dictionary each phase function returned
    trace,          \* ordered record of calls, audit records and executions
    reports,        \* the records persisted by _save_results, in order
    pushed,         \* the status records passed to the notifier command
    exit_code,      \* value main() hands to sys.exit, -1 while running
    output,         \* the stdout lines a parser is looked at on (ParseSpec)
    payload         \* what the parser made of them (ParseSpec)

vars == <<mode, config, pc, results, phase_results, trace, reports, pushed, exit_code,
          output, payload>>

----------------------------------------------------------------------------
(* Bounds of the model *)

MaxDomains == 2     \* longest domain list the listing command prints
MaxFamilies == 2    \* most families in the organization file
MaxLines == 2       \* most stdout lines of the organizer / verifier
MaxAssignLines == 5 \* most organizer lines a parser run is given (ParseSpec)
MaxVerifyLines == 3 \* most verifier lines a parser run is given (ParseSpec)

----------------------------------------------------------------------------
(* Values *)

PhaseNames == {"fetch", "categorize", "assign", "verify"}

Modes == PhaseNames \cup {"full"}

\* outcome of subprocess.run(check=True): exit 0, CalledProcessError, or the
\* executable cannot be started (FileNotFoundError, not a CalledProcessError)
CmdOutcomes == {"ok", "nonzero", "spawnfail"}

\* outcome of creating a directory and writing a file
IoOutcomes == {"ok", "oserror"}

Domains == {"acct-a.com", "b.com"}

\* the domains whose lower-cased text contains the configured account id
AccountDomains == {"acct-a.com"}

RECURSIVE SeqsUpTo(_, _)
SeqsUpTo(S, n) ==
    IF n = 0 THEN {<<>>}
    ELSE LET shorter == SeqsUpTo(S, n - 1)
         IN  shorter \cup {Append(s, x) : s \in {t \in shorter : Len(t) = n - 1}, x \in S}

RECURSIVE SumSeq(_)
SumSeq(s) == IF s = <<>> THEN 0 ELSE Head(s) + SumSeq(Tail(s))

RECURSIVE FilterSeq(_, _)
FilterSeq(s, keep) ==
    IF s = <<>> THEN <<>>
    ELSE IF Head(s) \in keep THEN <<Head(s)>> \o FilterSeq(Tail(s), keep)
         ELSE FilterSeq(Tail(s), keep)

Err(text, detail) == [text |-> text, detail |-> detail]

Ev(ev, by, arg) == [ev |-> ev, by |-> by, arg |-> arg]

\* log_agent_action(action_type, ...)
log_agent_action(by, action_type) == Ev("audit", by, action_type)

\* the dictionary a phase function starts from
\* (count is domains_count, families_count, assignments_count or
\* verified_count; families is the size of each entry of "families";
\* failed is failed_count)
NewPhaseResult ==
    [invoked |-> FALSE, success |-> FALSE, error |-> "none", count |-> 0,
     families |-> <<>>, failed |-> 0]

\* self.results[key] = ... in phase function `by`
Wrote(by, key) == Ev("write_count", by, key)

\* self.results as __init__ leaves it
InitResults ==
    [domains_fetched |-> 0, domains_categorized |-> 0, domains_assigned |-> 0,
     domains_verified |-> 0, families_identified |-> 0,
     success |-> FALSE, errors |-> <<>>]

----------------------------------------------------------------------------
(* run_command: audit record, execution, and on a non-zero exit the second *)
(* audit record and the "Command failed" entry, then re-raise.             *)

\* mutant of run_command: a command that exits non-zero is run once more
run_command_retry(res, by, outcome) ==
    LET before == <<log_agent_action(by, "run_command"), Ev("exec", by, outcome)>>
    IN  IF outcome = "ok"
        THEN [res |-> res, exc |-> "none", ev |-> before]
        ELSE IF outcome = "nonzero"
        THEN [res |-> [res EXCEPT !.errors = Append(@, Err("Command failed", by))],
              exc |-> "CalledProcessError",
              ev  |-> before \o <<Ev("exec", by, outcome),
                                  log_agent_action(by, "command_error")>>]
        ELSE [res |-> res, exc |-> "FileNotFoundError", ev |-> before]

\* mutant of run_command: a command that cannot be started is recorded like
\* one that exits non-zero
run_command_records_spawn(res, by, outcome) ==
    LET before == <<log_agent_action(by, "run_command"), Ev("exec", by, outcome)>>
    IN  IF outcome = "ok"
        THEN [res |-> res, exc |-> "none", ev |-> before]
        ELSE [res |-> [res EXCEPT !.errors = Append(@, Err("Command failed", by))],
              exc |-> IF outcome = "nonzero" THEN "CalledProcessError"
                      ELSE "FileNotFoundError",
              ev  |-> before \o <<log_agent_action(by, "command_error")>>]

\* mutant of run_command: the failure is recorded in errors but not audited
run_command_unaudited_error(res, by, outcome) ==
    LET before == <<log_agent_action(by, "run_command"), Ev("exec", by, outcome)>>
    IN  IF outcome = "ok"
        THEN [res |-> res, exc |-> "none", ev |-> before]
        ELSE IF outcome = "nonzero"
        THEN [res |-> [res EXCEPT !.errors = Append(@, Err("Command failed", by))],
              exc |-> "CalledProcessError",
              ev  |-> before]
        ELSE [res |-> res, exc |-> "FileNotFoundError", ev |-> before]

run_command(res, by, outcome) ==
    LET before == <<log_agent_action(by, "run_command"), Ev("exec", by, outcome)>>
    IN  IF outcome = "ok"
        THEN [res |-> res, exc |-> "none", ev |-> before]
        ELSE IF outcome = "nonzero"
        THEN [res |-> [res EXCEPT !.errors = Append(@, Err("Command failed", by))],
              exc |-> "CalledProcessError",
              ev  |-> before \o <<log_agent_action(by, "command_error")>>]
        ELSE [res |-> res, exc |-> "FileNotFoundError", ev |-> before]

\* the prefix of the audit records of each phase function
AuditPrefix ==
    [fetch |-> "fetch_domains", categorize |-> "categorize_domains",
     assign |-> "assign_projects", verify |-> "verify_domains"]

\* the text each phase function puts before str(e) in its errors entry
FailureText ==
    [fetch |-> "Domain fetch failed", categorize |-> "Domain categorization failed",
     assign |-> "Domain assignment failed", verify |-> "Domain verification failed"]

\* the first statements of a phase function
PhaseStart(by) ==
    <<Ev("call", by, "phase"), log_agent_action(by, AuditPrefix[by] \o "_start")>>

\* mutant of PhaseFailed: the failure is returned but not recorded in errors
PhaseFailed_silent(res, by, exc, ev, count) ==
    [res |-> res,
     ret |-> [invoked |-> TRUE, success |-> FALSE, error |-> exc, count |-> count,
              families |-> <<>>, failed |-> 0],
     ev  |-> ev \o <<log_agent_action(by, AuditPrefix[by] \o "_error")>>]

\* the except branch shared by the four phase functions; count is what the
\* try block had already stored in the phase's own result dictionary
PhaseFailed(res, by, exc, ev, count) ==
    [res |-> [res EXCEPT !.errors = Append(@, Err(FailureText[by], exc))],
     ret |-> [invoked |-> TRUE, success |-> FALSE, error |-> exc, count |-> count,
              families |-> <<>>, failed |-> 0],
     ev  |-> ev \o <<log_agent_action(by, AuditPrefix[by] \o "_error")>>]

\* mutant of PhaseSucceeded: a later phase that completes clears domains_fetched
PhaseSucceeded_clears_fetched(res, by, ev, count) ==
    [res |-> IF by = "fetch" THEN res ELSE [res EXCEPT !.domains_fetched = 0],
     ret |-> [invoked |-> TRUE, success |-> TRUE, error |-> "none", count |-> count,
              families |-> <<>>, failed |-> 0],
     ev  |-> ev \o <<log_agent_action(by, AuditPrefix[by] \o "_complete")>>]

\* the end of a phase function's try block
PhaseSucceeded(res, by, ev, count) ==
    [res |-> res,
     ret |-> [invoked |-> TRUE, success |-> TRUE, error |-> "none", count |-> count,
              families |-> <<>>, failed |-> 0],
     ev  |-> ev \o <<log_agent_action(by, AuditPrefix[by] \o "_complete")>>]

----------------------------------------------------------------------------
(* fetch_domains *)

FetchStdouts ==
    {[json_ok |-> FALSE, domains |-> <<>>]}
      \cup {[json_ok |-> TRUE, domains |-> d] : d \in SeqsUpTo(Domains, MaxDomains)}

fetch_domains(res, cfg, cmd, stdout, stage) ==
    LET rc == run_command(res, "fetch", cmd)
        ev == PhaseStart("fetch") \o rc.ev
        domains_data == IF cfg.has_account_id
                        THEN FilterSeq(stdout.domains, AccountDomains)
                        ELSE stdout.domains
        counted == [rc.res EXCEPT !.domains_fetched = Len(domains_data)]
    IN  IF rc.exc # "none"
        THEN PhaseFailed(rc.res, "fetch", rc.exc, ev, 0)
        ELSE IF ~stdout.json_ok
        THEN PhaseFailed(rc.res, "fetch", "JSONDecodeError", ev, 0)
        ELSE IF stage # "ok"
        THEN PhaseFailed(counted, "fetch", "OSError",
                         Append(ev, Wrote("fetch", "domains_fetched")), Len(domains_data))
        ELSE PhaseSucceeded(counted, "fetch",
                            Append(ev, Wrote("fetch", "domains_fetched")), Len(domains_data))

----------------------------------------------------------------------------
(* categorize_domains *)

\* the sizes of the values of "families", smallest first: the code takes only
\* len() of the dictionary and the sum of len() over its values, so the order
\* of the families makes no difference
FamilySizes ==
    {z \in SeqsUpTo(0..MaxDomains, MaxFamilies) :
        \A i \in 1..(Len(z) - 1) : z[i] <= z[i + 1]}

\* what is found at temp/domain-organization.json after the organizer ran:
\* sizes lists len(domains) of each family; sized is FALSE when a value of
\* "families" has no len()
OrgFiles ==
    {[exists |-> FALSE, json_ok |-> FALSE, sizes |-> <<>>, sized |-> FALSE],
     [exists |-> TRUE, json_ok |-> FALSE, sizes |-> <<>>, sized |-> FALSE]}
      \cup {[exists |-> TRUE, json_ok |-> TRUE, sizes |-> z, sized |-> TRUE] :
                z \in FamilySizes}
      \cup {[exists |-> TRUE, json_ok |-> TRUE, sizes |-> z, sized |-> FALSE] :
                z \in FamilySizes \ {<<>>}}

categorize_domains(res, cmd, org) ==
    LET rc == run_command(res, "categorize", cmd)
        ev == PhaseStart("categorize") \o rc.ev
        families == [rc.res EXCEPT !.families_identified = Len(org.sizes)]
        counted == [families EXCEPT !.domains_categorized = SumSeq(org.sizes)]
    IN  IF rc.exc # "none"
        THEN PhaseFailed(rc.res, "categorize", rc.exc, ev, 0)
        ELSE IF ~org.exists
        THEN PhaseFailed(rc.res, "categorize", "FileNotFoundError", ev, 0)
        ELSE IF ~org.json_ok
        THEN PhaseFailed(rc.res, "categorize", "JSONDecodeError", ev, 0)
        ELSE IF ~org.sized
        THEN [PhaseFailed(families, "categorize", "TypeError",
                          Append(ev, Wrote("categorize", "families_identified")),
                          Len(org.sizes))
                EXCEPT !.ret.families = org.sizes]
        ELSE [PhaseSucceeded(counted, "categorize",
                             ev \o <<Wrote("categorize", "families_identified"),
                                     Wrote("categorize", "domains_categorized")>>,
                             Len(org.sizes))
                EXCEPT !.ret.families = org.sizes]

----------------------------------------------------------------------------
(* Text.  A line of command output is a sequence of symbols: the literals   *)
(* the parsers search for ("Firebase Project", "[SUCCESS]", "[FAILED]") are *)
(* one symbol each, as are ":", "-", " " and every name.                    *)

Min(S) == CHOOSE x \in S : \A y \in S : x <= y

\* str.find, 1-based; 0 when sub does not occur
Find(s, sub) ==
    LET at == {i \in 1..(Len(s) - Len(sub) + 1) : SubSeq(s, i, i + Len(sub) - 1) = sub}
    IN  IF at = {} THEN 0 ELSE Min(at)

\* sub in s
Contains(s, sub) == Find(s, sub) # 0

\* s.split(sub)[0]
Before(s, sub) == IF Contains(s, sub) THEN SubSeq(s, 1, Find(s, sub) - 1) ELSE s

\* s.split(sub, 1)[1], defined when sub occurs
After(s, sub) == SubSeq(s, Find(s, sub) + Len(sub), Len(s))

RECURSIVE LStrip(_)
LStrip(s) == IF s # <<>> /\ Head(s) = " " THEN LStrip(Tail(s)) ELSE s

RECURSIVE RStrip(_)
RStrip(s) ==
    IF s # <<>> /\ s[Len(s)] = " " THEN RStrip(SubSeq(s, 1, Len(s) - 1)) ELSE s

\* str.strip
Strip(s) == RStrip(LStrip(s))

\* s[2:]
From2(s) == SubSeq(s, 3, Len(s))

Range(f) == {f[x] : x \in DOMAIN f}

----------------------------------------------------------------------------
(* assign_to_projects *)

\* the built-in table of __init__
DefaultMapping ==
    [character |-> "api-for-warp-drive", command |-> "api-for-warp-drive",
     wing |-> "api-for-warp-drive", squadron |-> "api-for-warp-drive",
     brand |-> "coaching2100-com", aixtiv |-> "aixtiv-symphony",
     learning |-> "academy2100-com", flight |-> "flight-school",
     commerce |-> "giftshop2100-com", governance |-> "api-for-warp-drive"]

\* a configuration file with a domainFamilies section: family -> its
\* "project" entry, "" when the entry is missing
ConfigFamilies == [character |-> "proj-a", brand |-> "proj-b", wing |-> ""]

\* self.project_mapping
project_mapping(cfg) ==
    IF cfg.has_families
    THEN [f \in DOMAIN ConfigFamilies |->
            IF ConfigFamilies[f] = "" THEN "api-for-warp-drive" ELSE ConfigFamilies[f]]
    ELSE DefaultMapping

HeaderLine(p) == <<"Firebase Project", ":", " ", p>>

DomainLine(d) == <<"-", " ", d>>

AssignLines ==
    {HeaderLine(p) : p \in {"proj-a", "coaching2100-com"}}
      \cup {DomainLine(d) : d \in {"x.com", "y.com"}}
      \cup {<<"Organizing", " ", "domains">>}

\* mutant of assign_line: only the first project header is taken
assign_line_first_header(st, line) ==
    IF Contains(line, <<"Firebase Project">>) /\ Contains(line, <<":">>)
    THEN IF st.current_project = <<>>
         THEN [st EXCEPT !.current_project = Strip(After(line, <<":">>))]
         ELSE st
    ELSE IF st.current_project # <<>> /\ Strip(line) # <<>> /\ Head(Strip(line)) = "-"
    THEN LET domain == Strip(From2(Strip(line)))
         IN  IF st.current_project \in DOMAIN st.assignments
             THEN [st EXCEPT !.assignments[st.current_project] = Append(@, domain)]
             ELSE st
    ELSE st

\* mutant of assign_line: a domain line met before any header goes to the
\* api-for-warp-drive project
assign_line_headerless_kept(st, line) ==
    IF Contains(line, <<"Firebase Project">>) /\ Contains(line, <<":">>)
    THEN [st EXCEPT !.current_project = Strip(After(line, <<":">>))]
    ELSE IF Strip(line) # <<>> /\ Head(Strip(line)) = "-"
    THEN LET domain == Strip(From2(Strip(line)))
             project == IF st.current_project = <<>> THEN <<"api-for-warp-drive">>
                        ELSE st.current_project
         IN  IF project \in DOMAIN st.assignments
             THEN [st EXCEPT !.assignments[project] = Append(@, domain)]
             ELSE st
    ELSE st

\* one iteration of the loop over the output lines
assign_line(st, line) ==
    IF Contains(line, <<"Firebase Project">>) /\ Contains(line, <<":">>)
    THEN [st EXCEPT !.current_project = Strip(After(line, <<":">>))]
    ELSE IF st.current_project # <<>> /\ Strip(line) # <<>> /\ Head(Strip(line)) = "-"
    THEN LET domain == Strip(From2(Strip(line)))
         IN  IF st.current_project \in DOMAIN st.assignments
             THEN [st EXCEPT !.assignments[st.current_project] = Append(@, domain)]
             ELSE st
    ELSE st

RECURSIVE assign_lines(_, _)
assign_lines(st, lines) ==
    IF lines = <<>> THEN st ELSE assign_lines(assign_line(st, Head(lines)), Tail(lines))

\* the assignments dictionary built from the organizer's output
parse_assignments(cfg, lines) ==
    assign_lines([current_project |-> <<>>,
                  assignments |-> [p \in {<<q>> : q \in Range(project_mapping(cfg))} |-> <<>>]],
                 lines).assignments

RECURSIVE SumLens(_, _)
SumLens(f, keys) ==
    IF keys = {} THEN 0
    ELSE LET k == CHOOSE x \in keys : TRUE
         IN  Len(f[k]) + SumLens(f, keys \ {k})

\* sum(len(domains) for domains in assignments.values())
assignments_count(assignments) == SumLens(assignments, DOMAIN assignments)

assign_to_projects(res, cfg, cmd, lines) ==
    LET rc == run_command(res, "assign", cmd)
        ev == PhaseStart("assign") \o rc.ev
        n  == assignments_count(parse_assignments(cfg, lines))
    IN  IF rc.exc # "none"
        THEN PhaseFailed(rc.res, "assign", rc.exc, ev, 0)
        ELSE PhaseSucceeded([rc.res EXCEPT !.domains_assigned = n], "assign",
                            Append(ev, Wrote("assign", "domains_assigned")), n)

----------------------------------------------------------------------------
(* verify_domains *)

TaggedLine(tag, d) == <<tag, " ", d, " ", "-", " ", "detail">>

VerifyLines ==
    {TaggedLine(t, d) : t \in {"[SUCCESS]", "[FAILED]"}, d \in {"x.com", "y.com"}}
      \cup {<<"Checked", " ", "domains">>,
            <<"[SUCCESS]", " ", "x.com">>,
            <<"x.com", " ", "-", " ", "[FAILED]">>}

Delimiter == <<" ", "-", " ">>

\* line.split(" - ")[0].split(tag)[1] raises IndexError when the tag is not
\* in front of the first delimiter
TagRaises(line, tag) == ~Contains(Before(line, Delimiter), <<tag>>)

TagDomain(line, tag) ==
    Strip(Before(After(Before(line, Delimiter), <<tag>>), <<tag>>))

\* one iteration of the loop over the output lines
verify_line(st, line) ==
    IF st.raised THEN st
    ELSE IF Contains(line, <<"[SUCCESS]">>) /\ Contains(line, Delimiter)
    THEN IF TagRaises(line, "[SUCCESS]") THEN [st EXCEPT !.raised = TRUE]
         ELSE [st EXCEPT !.verified_domains = Append(@, TagDomain(line, "[SUCCESS]"))]
    ELSE IF Contains(line, <<"[FAILED]">>) /\ Contains(line, Delimiter)
    THEN IF TagRaises(line, "[FAILED]") THEN [st EXCEPT !.raised = TRUE]
         ELSE [st EXCEPT !.failed_domains = Append(@, TagDomain(line, "[FAILED]"))]
    ELSE st

RECURSIVE verify_lines(_, _)
verify_lines(st, lines) ==
    IF lines = <<>> THEN st ELSE verify_lines(verify_line(st, Head(lines)), Tail(lines))

\* the two lists built from the verifier's output
parse_verification(lines) ==
    verify_lines([verified_domains |-> <<>>, failed_domains |-> <<>>, raised |-> FALSE],
                 lines)

\* mutant of verify_domains: a domain tagged [FAILED] is recorded in errors
verify_domains_failed_is_error(res, cmd, lines) ==
    LET rc == run_command(res, "verify", cmd)
        ev == PhaseStart("verify") \o rc.ev
        parsed == parse_verification(lines)
        n  == Len(parsed.verified_domains)
        flagged == IF parsed.failed_domains = <<>> THEN rc.res
                   ELSE [rc.res EXCEPT !.errors = Append(@, Err("Verification failed", "verify"))]
    IN  IF rc.exc # "none"
        THEN PhaseFailed(rc.res, "verify", rc.exc, ev, 0)
        ELSE IF parsed.raised
        THEN PhaseFailed(rc.res, "verify", "IndexError", ev, 0)
        ELSE [PhaseSucceeded([flagged EXCEPT !.domains_verified = n], "verify",
                             Append(ev, Wrote("verify", "domains_verified")), n)
                EXCEPT !.ret.failed = Len(parsed.failed_domains)]

verify_domains(res, cmd, lines) ==
    LET rc == run_command(res, "verify", cmd)
        ev == PhaseStart("verify") \o rc.ev
        parsed == parse_verification(lines)
        n  == Len(parsed.verified_domains)
    IN  IF rc.exc # "none"
        THEN PhaseFailed(rc.res, "verify", rc.exc, ev, 0)
        ELSE IF parsed.raised
        THEN PhaseFailed(rc.res, "verify", "IndexError", ev, 0)
        ELSE [PhaseSucceeded([rc.res EXCEPT !.domains_verified = n], "verify",
                             Append(ev, Wrote("verify", "domains_verified")), n)
                EXCEPT !.ret.failed = Len(parsed.failed_domains)]

----------------------------------------------------------------------------
(* _save_results, _notify_completion and the steps of run_full_pipeline *)

BoolStr(b) == IF b THEN "True" ELSE "False"

\* _save_results: json.dump(self.results) into a new timestamped file; io is
\* whether the directory can be made and the file opened
save_results(res, reps, io) ==
    LET ev == <<Ev("call", "save", "_save_results"), Ev("io", "save", io)>>
    IN  IF io = "ok"
        THEN [exc |-> "none", reports |-> Append(reps, res),
              ev  |-> Append(ev, Ev("read_success", "save", BoolStr(res.success)))]
        ELSE [exc |-> "OSError", reports |-> reps, ev |-> ev]

\* mutant of set_success: success without looking at errors
set_success_always(res) == [res EXCEPT !.success = TRUE]

\* self.results["success"] = len(self.results["errors"]) == 0
set_success(res) == [res EXCEPT !.success = (Len(res.errors) = 0)]

\* mutant of status_record: the status pushed is always SUCCESS
status_record_always_success(res) ==
    [status |-> "SUCCESS", verified |-> res.domains_verified]

\* the --fields argument _notify_completion builds from self.results
status_record(res) ==
    [status |-> IF res.success THEN "SUCCESS" ELSE "FAILURE",
     verified |-> res.domains_verified]

\* mutant of notify_completion: a failed push also clears success
notify_completion_flips(res, cmd) ==
    LET rc == run_command(res, "notify", cmd)
        ev == <<Ev("call", "notify", "_notify_completion"),
                Ev("read_success", "notify", BoolStr(res.success))>> \o rc.ev
    IN  IF rc.exc = "none"
        THEN [res |-> rc.res, ev |-> ev]
        ELSE [res |-> [rc.res EXCEPT
                         !.errors = Append(@, Err("Failed to update Firestore", rc.exc)),
                         !.success = FALSE],
              ev  |-> ev]

\* mutant of notify_completion: the notifier's entry is put in front of errors
notify_completion_prepends(res, cmd) ==
    LET rc == run_command(res, "notify", cmd)
        ev == <<Ev("call", "notify", "_notify_completion"),
                Ev("read_success", "notify", BoolStr(res.success))>> \o rc.ev
    IN  IF rc.exc = "none"
        THEN [res |-> rc.res, ev |-> ev]
        ELSE [res |-> [rc.res EXCEPT
                         !.errors = <<Err("Failed to update Firestore", rc.exc)>> \o @],
              ev  |-> ev]

\* _notify_completion: never raises
notify_completion(res, cmd) ==
    LET rc == run_command(res, "notify", cmd)
        ev == <<Ev("call", "notify", "_notify_completion"),
                Ev("read_success", "notify", BoolStr(res.success))>> \o rc.ev
    IN  IF rc.exc = "none"
        THEN [res |-> rc.res, ev |-> ev]
        ELSE [res |-> [rc.res EXCEPT
                         !.errors = Append(@, Err("Failed to update Firestore", rc.exc))],
              ev  |-> ev]

\* mutant of pipeline_except: the handler does not call _save_results
pipeline_except_no_save(res, reps, exc, io) ==
    [res |-> [[res EXCEPT !.errors = Append(@, Err("Pipeline execution failed", exc))]
                EXCEPT !.success = FALSE],
     reports |-> reps,
     ev  |-> <<log_agent_action("controller", "autoscale_pipeline_error"),
               Ev("write_success", "controller", "False")>>,
     pc  |-> "returned"]

\* the except branch of run_full_pipeline and the return after it: the entry
\* in errors, success = False, and _save_results once more, outside any try
pipeline_except(res, reps, exc, io) ==
    LET failed == [[res EXCEPT !.errors = Append(@, Err("Pipeline execution failed", exc))]
                     EXCEPT !.success = FALSE]
        s == save_results(failed, reps, io)
    IN  [res |-> failed,
         reports |-> s.reports,
         ev  |-> <<log_agent_action("controller", "autoscale_pipeline_error"),
                   Ev("write_success", "controller", "False")>> \o s.ev,
         pc  |-> IF s.exc = "none" THEN "returned" ELSE "raised"]

\* mutant of after_phase: no gating, every phase runs
after_phase_ungated(m, ph, success) ==
    IF m # "full" THEN "summary"
    ELSE CASE ph = "fetch" -> "categorize"
           [] ph = "categorize" -> "assign"
           [] ph = "assign" -> "verify"
           [] ph = "verify" -> "save"

\* mutant of after_phase: a failure skips only the phase right after it
after_phase_skip_one(m, ph, success) ==
    IF m # "full" THEN "summary"
    ELSE CASE ph = "fetch" -> IF success THEN "categorize" ELSE "assign"
           [] ph = "categorize" -> IF success THEN "assign" ELSE "verify"
           [] ph = "assign" -> IF success THEN "verify" ELSE "save"
           [] ph = "verify" -> "save"

\* mutant of after_phase: a failed phase ends the run without a report
after_phase_no_report(m, ph, success) ==
    IF m # "full" THEN "summary"
    ELSE IF ~success THEN "set_success"
    ELSE CASE ph = "fetch" -> "categorize"
           [] ph = "categorize" -> "assign"
           [] ph = "assign" -> "verify"
           [] ph = "verify" -> "save"

\* mutant of after_phase: a single requested phase falls through into the
\* rest of the pipeline
after_phase_falls_through(m, ph, success) ==
    IF ~success THEN (IF m = "full" THEN "save" ELSE "summary")
    ELSE CASE ph = "fetch" -> "categorize"
           [] ph = "categorize" -> "assign"
           [] ph = "assign" -> "verify"
           [] ph = "verify" -> IF m = "full" THEN "save" ELSE "summary"

\* mutant of after_phase: Verify runs whatever Assign returned
after_phase_verify_anyway(m, ph, success) ==
    IF m # "full" THEN "summary"
    ELSE CASE ph = "fetch" -> IF success THEN "categorize" ELSE "save"
           [] ph = "categorize" -> IF success THEN "assign" ELSE "save"
           [] ph = "assign" -> "verify"
           [] ph = "verify" -> "save"

\* where main / run_full_pipeline goes after phase ph returned with `success`
after_phase(m, ph, success) ==
    IF m # "full" THEN "summary"
    ELSE IF ~success THEN "save"
    ELSE CASE ph = "fetch" -> "categorize"
           [] ph = "categorize" -> "assign"
           [] ph = "assign" -> "verify"
           [] ph = "verify" -> "save"

----------------------------------------------------------------------------
(* The state machine *)

Configs == [has_account_id : BOOLEAN, has_families : BOOLEAN]

Init ==
    /\ mode \in Modes
    /\ config \in Configs
    /\ pc = "main"
    /\ results = InitResults
    /\ phase_results = [ph \in PhaseNames |-> NewPhaseResult]
    /\ trace = <<>>
    /\ reports = <<>>
    /\ pushed = <<>>
    /\ exit_code = -1
    /\ output = <<>>
    /\ payload = <<>>

\* main dispatching on args.phase; run_full_pipeline's first statement
Dispatch ==
    /\ pc = "main"
    /\ pc' = IF mode = "full" THEN "fetch" ELSE mode
    /\ trace' = IF mode = "full"
                THEN <<log_agent_action("controller", "autoscale_pipeline_start")>>
                ELSE trace
    /\ UNCHANGED <<mode, config, results, phase_results, reports, pushed, exit_code, output, payload>>

\* a phase function returned r
PhaseReturns(ph, r) ==
    /\ results' = r.res
    /\ phase_results' = [phase_results EXCEPT ![ph] = r.ret]
    /\ trace' = trace \o r.ev
    /\ pc' = after_phase(mode, ph, r.ret.success)
    /\ UNCHANGED <<mode, config, reports, pushed, exit_code>>

Fetch ==
    /\ pc = "fetch"
    /\ \E cmd \in CmdOutcomes, stdout \in FetchStdouts, stage \in IoOutcomes :
         PhaseReturns("fetch", fetch_domains(results, config, cmd, stdout, stage))
    /\ UNCHANGED <<output, payload>>

Categorize ==
    /\ pc = "categorize"
    /\ \E cmd \in CmdOutcomes, org \in OrgFiles :
         PhaseReturns("categorize", categorize_domains(results, cmd, org))
    /\ UNCHANGED <<output, payload>>

Assign ==
    /\ pc = "assign"
    /\ \E cmd \in CmdOutcomes, lines \in SeqsUpTo(AssignLines, MaxLines) :
         \* a command that fails leaves no stdout to read
         /\ cmd # "ok" => lines = <<>>
         /\ PhaseReturns("assign", assign_to_projects(results, config, cmd, lines))
    /\ UNCHANGED <<output, payload>>

Verify ==
    /\ pc = "verify"
    /\ \E cmd \in CmdOutcomes, lines \in SeqsUpTo(VerifyLines, MaxLines) :
         \* a command that fails leaves no stdout to read
         /\ cmd # "ok" => lines = <<>>
         /\ PhaseReturns("verify", verify_domains(results, cmd, lines))
    /\ UNCHANGED <<output, payload>>

\* line 355: self._save_results() inside the try block
SaveResults ==
    /\ pc = "save"
    /\ \E io \in IoOutcomes :
         LET s == save_results(results, reports, io)
         IN  /\ reports' = s.reports
             /\ trace' = trace \o s.ev
             /\ pc' = IF s.exc = "none" THEN "set_success" ELSE "except"
    /\ UNCHANGED <<mode, config, results, phase_results, pushed, exit_code, output, payload>>

\* line 358
SetSuccess ==
    /\ pc = "set_success"
    /\ results' = set_success(results)
    /\ trace' = Append(trace, Ev("write_success", "controller", BoolStr(results'.success)))
    /\ pc' = "notify"
    /\ UNCHANGED <<mode, config, phase_results, reports, pushed, exit_code, output, payload>>

\* lines 361-364 and the return
Notify ==
    /\ pc = "notify"
    /\ \E cmd \in CmdOutcomes :
         LET n == notify_completion(results, cmd)
         IN  /\ results' = n.res
             /\ pushed' = Append(pushed, status_record(results))
             /\ trace' = trace \o n.ev
                           \o <<log_agent_action("controller", "autoscale_pipeline_complete")>>
    /\ pc' = "returned"
    /\ UNCHANGED <<mode, config, phase_results, reports, exit_code, output, payload>>

\* lines 366-375: the except branch, entered when line 355 raised
Except ==
    /\ pc = "except"
    /\ \E io \in IoOutcomes :
         LET h == pipeline_except(results, reports, "OSError", io)
         IN  /\ results' = h.res
             /\ reports' = h.reports
             /\ trace' = trace \o h.ev
             /\ pc' = h.pc
    /\ UNCHANGED <<mode, config, phase_results, pushed, exit_code, output, payload>>

\* mutant of main_success: main reads the Run Summary whatever ran
main_success_summary(m, res, phres) == res.success

\* main, lines 434-441: success is read from what the requested phase returned
main_success(m, res, phres) == IF m = "full" THEN res.success ELSE phres[m].success

MainReturn ==
    /\ pc \in {"summary", "returned"}
    /\ exit_code' = IF main_success(mode, results, phase_results) THEN 0 ELSE 1
    /\ trace' = Append(trace, Ev("read_success", "main",
                                 BoolStr(main_success(mode, results, phase_results))))
    /\ pc' = "exited"
    /\ UNCHANGED <<mode, config, results, phase_results, reports, pushed, output, payload>>

\* an exception leaving run_full_pipeline leaves main too: the interpreter
\* prints the traceback and exits with status 1
Crash ==
    /\ pc = "raised"
    /\ exit_code' = 1
    /\ pc' = "exited"
    /\ UNCHANGED <<mode, config, results, phase_results, trace, reports, pushed, output, payload>>

Next ==
    \/ Dispatch
    \/ Fetch
    \/ Categorize
    \/ Assign
    \/ Verify
    \/ SaveResults
    \/ SetSuccess
    \/ Notify
    \/ Except
    \/ MainReturn
    \/ Crash

Spec == Init /\ [][Next]_vars

\* run_full_pipeline is straight-line synchronous code: whenever a statement
\* is left to run, the interpreter runs it (every command is taken to return)
FairSpec == Spec /\ WF_vars(Next)

----------------------------------------------------------------------------
(* The parsers on given output: the program run with --phase assign or     *)
(* --phase verify, the command having exited 0 and printed `output`.       *)

ParseAssignLines ==
    {HeaderLine(p) : p \in {"proj-a", "proj-b"}}
      \cup {DomainLine(d) : d \in {"x.com", "y.com", "z.com"}}
      \cup {<<"Organizing", " ", "domains">>}

ParseInit ==
    /\ mode \in {"assign", "verify"}
    /\ config \in {c \in Configs : ~c.has_account_id /\ (mode = "verify" => ~c.has_families)}
    /\ pc = mode
    /\ results = InitResults
    /\ phase_results = [ph \in PhaseNames |-> NewPhaseResult]
    /\ trace = <<>>
    /\ reports = <<>>
    /\ pushed = <<>>
    /\ exit_code = -1
    /\ output \in IF mode = "assign"
                  THEN SeqsUpTo(ParseAssignLines, MaxAssignLines)
                  ELSE SeqsUpTo(VerifyLines, MaxVerifyLines)
    /\ payload = <<>>

AssignOutput ==
    /\ pc = "assign"
    /\ PhaseReturns("assign", assign_to_projects(results, config, "ok", output))
    /\ payload' = parse_assignments(config, output)
    /\ UNCHANGED output

VerifyOutput ==
    /\ pc = "verify"
    /\ PhaseReturns("verify", verify_domains(results, "ok", output))
    /\ payload' = parse_verification(output)
    /\ UNCHANGED output

ParseNext ==
    \/ AssignOutput
    \/ VerifyOutput
    \/ MainReturn

ParseSpec == ParseInit /\ [][ParseNext]_vars

----------------------------------------------------------------------------
(* Reading the trace *)

\* positions of the trace where component c was called
CallsOf(c) == {i \in DOMAIN trace : trace[i].ev = "call" /\ trace[i].by = c}

Invoked(c) == CallsOf(c) # {}

\* positions where the command of component c ran and did not exit zero
FailedExecs(c) ==
    {i \in DOMAIN trace : trace[i].ev = "exec" /\ trace[i].by = c /\ trace[i].arg # "ok"}

\* positions where results["success"] was assigned
SuccessWrites == {i \in DOMAIN trace : trace[i].ev = "write_success"}

Max(S) == CHOOSE x \in S : \A y \in S : x >= y

\* the entries of errors appended by the notifier or by its command
NotifierEntry(e) ==
    \/ e.text = "Failed to update Firestore"
    \/ e.text = "Command failed" /\ e.detail = "notify"

\* the entries of errors appended by phase ph or by its command
PhaseEntry(e, ph) ==
    \/ e.text = FailureText[ph]
    \/ e.text = "Command failed" /\ e.detail = ph

\* the run of run_full_pipeline is over: it returned or raised
RunOver == pc \in {"returned", "raised", "exited"}

\* the phases run_full_pipeline would run after ph
Later(ph) ==
    CASE ph = "fetch" -> {"categorize", "assign", "verify"}
      [] ph = "categorize" -> {"assign", "verify"}
      [] ph = "assign" -> {"verify"}
      [] ph = "verify" -> {}

\* the counters of self.results a phase writes
Counters(res, ph) ==
    CASE ph = "fetch" -> <<res.domains_fetched>>
      [] ph = "categorize" -> <<res.domains_categorized, res.families_identified>>
      [] ph = "assign" -> <<res.domains_assigned>>
      [] ph = "verify" -> <<res.domains_verified>>

----------------------------------------------------------------------------
(* Claims *)

\* C1 (as stated): at the end of every full-pipeline run, errors is non-empty
\* if and only if success is false.
C1_ErrorsIffNotSuccess ==
    (mode = "full" /\ RunOver) => ((results.errors # <<>>) <=> ~results.success)

\* C1 (amended): at the end of every full-pipeline run, success is false if
\* and only if errors holds an entry that the notifier did not append; so
\* success false implies errors non-empty, and errors is non-empty with success
\* true only when all its entries come from a failed notifier.
C1_SuccessIffNoErrorBeforeNotify ==
    (mode = "full" /\ RunOver) =>
        /\ ~results.success <=>
             \E i \in DOMAIN results.errors : ~NotifierEntry(results.errors[i])
        /\ ~results.success => results.errors # <<>>

C1_Witness ==
    /\ mode = "full" /\ pc = "returned"
    /\ results.success
    /\ results.errors # <<>>

\* C2: in a full-pipeline run Categorize is invoked only if Fetch returned
\* success, Assign only if Categorize did, Verify only if Assign did; after a
\* failed Fetch none of the three is ever invoked.
C2_Gating ==
    mode = "full" =>
        /\ Invoked("categorize") => phase_results["fetch"].success
        /\ Invoked("assign") => phase_results["categorize"].success
        /\ Invoked("verify") => phase_results["assign"].success
        /\ (Invoked("fetch") /\ ~phase_results["fetch"].success) =>
             \A ph \in Later("fetch") : ~Invoked(ph)

C2_Witness ==
    /\ mode = "full" /\ RunOver
    /\ Invoked("fetch") /\ ~phase_results["fetch"].success
    /\ ~Invoked("categorize") /\ ~Invoked("assign") /\ ~Invoked("verify")

\* C3: in a full-pipeline run where a phase fails, every later phase leaves
\* the Run Summary untouched: its counters stay 0 and errors holds no entry of
\* that phase or of its command.
C3_GatedOutUntouched ==
    mode = "full" =>
        \A ph \in PhaseNames :
            (Invoked(ph) /\ ~phase_results[ph].success) =>
                \A q \in Later(ph) :
                    /\ \A k \in DOMAIN Counters(results, q) : Counters(results, q)[k] = 0
                    /\ \A i \in DOMAIN results.errors : ~PhaseEntry(results.errors[i], q)

C3_Witness ==
    /\ mode = "full" /\ RunOver
    /\ phase_results["fetch"].success /\ results.domains_fetched > 0
    /\ Invoked("categorize") /\ ~phase_results["categorize"].success
    /\ results.domains_assigned = 0 /\ results.domains_verified = 0
    /\ Len(results.errors) = 1

\* C4: when the notifier's command fails in a full-pipeline run, success keeps
\* the value computed before the notifier was invoked, and the exit code is
\* the one that value gives.
C4_NotifierKeepsSuccess ==
    (mode = "full" /\ FailedExecs("notify") # {}) =>
        LET computed == trace[Max(SuccessWrites)].arg
        IN  /\ BoolStr(results.success) = computed
            /\ pc = "exited" => exit_code = (IF computed = "True" THEN 0 ELSE 1)

C4_Witness ==
    /\ mode = "full" /\ pc = "exited"
    /\ FailedExecs("notify") # {}
    /\ exit_code = 0

\* positions where _save_results tried to write, and where it could not
SaveAttempts == {i \in DOMAIN trace : trace[i].ev = "io" /\ trace[i].by = "save"}

FailedSaves == {i \in SaveAttempts : trace[i].arg # "ok"}

\* positions where the except branch of run_full_pipeline was entered
HandlerEntries ==
    {i \in DOMAIN trace : trace[i] = log_agent_action("controller", "autoscale_pipeline_error")}

PipelineEntries ==
    {i \in DOMAIN results.errors : results.errors[i].text = "Pipeline execution failed"}

\* C5: in a full-pipeline run whose write succeeds, the persisted record
\* carries the success value and the errors sequence of the Run Summary that
\* run_full_pipeline returns.
C5_PersistedIsReturned ==
    (mode = "full" /\ pc = "returned" /\ reports # <<>>) =>
        /\ reports[Len(reports)].success = results.success
        /\ reports[Len(reports)].errors = results.errors

\* C6: success is written only after the last phase of the run, and nothing
\* reads success before it has been written.
C6_SuccessWrittenBeforeRead ==
    mode = "full" =>
        /\ \A w \in SuccessWrites :
             \A i \in DOMAIN trace : (trace[i].ev = "call" /\ trace[i].arg = "phase") => i < w
        /\ \A r \in DOMAIN trace :
             trace[r].ev = "read_success" => \E w \in SuccessWrites : w < r

\* C7: whatever commands, parsers, writer and notifier do, run_full_pipeline
\* returns to its caller and raises nothing, and every failure has its entry
\* in errors.
C7_AlwaysReturns ==
    mode = "full" =>
        /\ pc # "raised"
        /\ \A ph \in PhaseNames :
             (Invoked(ph) /\ ~phase_results[ph].success) =>
                 \E i \in DOMAIN results.errors : results.errors[i].text = FailureText[ph]
        /\ (RunOver /\ FailedSaves # {}) => PipelineEntries # {}
        /\ (RunOver /\ FailedExecs("notify") # {}) =>
             \E i \in DOMAIN results.errors :
                 results.errors[i].text = "Failed to update Firestore"

\* C8 (as stated): when the Report Writer fails, the failure is appended to
\* errors and the writer is not invoked again: at most one invocation a run.
C8_WriterAtMostOnce ==
    mode = "full" =>
        /\ Cardinality(CallsOf("save")) <= 1
        /\ (RunOver /\ FailedSaves # {}) => PipelineEntries # {}

\* C8 (amended): when the first invocation of the Report Writer fails, the
\* failure is appended to errors once and the writer is invoked exactly once
\* more; otherwise it is invoked once.  At most two invocations a run.
C8_WriterRetriedOnce ==
    (mode = "full" /\ RunOver) =>
        /\ Cardinality(CallsOf("save")) =
             (IF trace[Min(SaveAttempts)].arg = "ok" THEN 1 ELSE 2)
        /\ Cardinality(PipelineEntries) =
             (IF trace[Min(SaveAttempts)].arg = "ok" THEN 0 ELSE 1)

C8_Witness ==
    /\ mode = "full" /\ pc = "returned"
    /\ Cardinality(CallsOf("save")) = 2
    /\ Cardinality(FailedSaves) = 1
    /\ Len(reports) = 1

\* C9: when a failure is raised in run_full_pipeline itself, the controller
\* attempts the Report Writer and the Notifier after it, before the run ends.
C9_ReportsOnFailure ==
    (mode = "full" /\ RunOver /\ HandlerEntries # {}) =>
        /\ \E i \in CallsOf("save") : i > Min(HandlerEntries)
        /\ Invoked("notify")

\* C10: every full-pipeline run invokes the Report Writer, also when a phase
\* failed, and every invocation that finds the results location writable
\* persists a record.
C10_ReportAlwaysWritten ==
    (mode = "full" /\ RunOver) =>
        /\ Invoked("save")
        /\ Cardinality(SaveAttempts) = Cardinality(CallsOf("save"))
        /\ Len(reports) = Cardinality(SaveAttempts \ FailedSaves)

C10_Witness ==
    /\ mode = "full" /\ pc = "returned"
    /\ ~phase_results["fetch"].success
    /\ ~results.success
    /\ Len(reports) = 1
    /\ reports[1].errors # <<>>

\* C11 (as stated): for every --phase the exit code is 0 if and only if the
\* success field of the Run Summary at exit is true, and 1 otherwise.
C11_ExitCodeIsSummarySuccess ==
    pc = "exited" => exit_code = (IF results.success THEN 0 ELSE 1)

\* C11 (amended): the exit code is 0 if and only if the dictionary main got
\* back has success true, and 1 otherwise: the Run Summary for --phase full,
\* the Phase Result of the requested phase for the four others, where the
\* Run Summary keeps success false.  A run that ends by an exception exits 1.
C11_ExitCodeIsReturnedSuccess ==
    pc = "exited" =>
        /\ exit_code \in {0, 1}
        /\ mode = "full" => (exit_code = 0 <=> results.success)
        /\ mode # "full" =>
             /\ exit_code = 0 <=> phase_results[mode].success
             /\ ~results.success

C11_Witness ==
    /\ pc = "exited" /\ mode = "fetch"
    /\ exit_code = 0
    /\ ~results.success
    /\ results.domains_fetched > 0

\* C12: with --phase fetch, categorize, assign or verify exactly that phase
\* function is invoked, once, whatever its predecessors did, and no other
\* phase, nor the Report Writer, nor the Notifier.
C12_SinglePhaseOnly ==
    mode \in PhaseNames =>
        /\ \A c \in PhaseNames \cup {"save", "notify"} : Invoked(c) => c = mode
        /\ Cardinality(CallsOf(mode)) <= 1
        /\ pc \in {"summary", "exited"} => Cardinality(CallsOf(mode)) = 1
        /\ reports = <<>> /\ pushed = <<>>

C12_Witness ==
    /\ mode = "verify" /\ pc = "exited"
    /\ phase_results["verify"].success
    /\ ~phase_results["fetch"].invoked /\ ~phase_results["assign"].invoked
    /\ Cardinality(CallsOf("verify")) = 1

----------------------------------------------------------------------------
(* Reading the organizer's output line by line *)

IsHeader(l) == Len(l) = 4 /\ l[1] = "Firebase Project" /\ l[2] = ":"

IsDomainLine(l) == Len(l) = 3 /\ l[1] = "-" /\ l[2] = " "

HeadersBefore(i) == {j \in 1..(i - 1) : IsHeader(output[j])}

\* the project named by the last header before line i, "" when there is none
OwnerOf(i) ==
    IF HeadersBefore(i) = {} THEN "" ELSE output[Max(HeadersBefore(i))][4]

\* the domains of the domain lines among the first n lines that stand under
\* a header naming project p, in input order
RECURSIVE UnderUpTo(_, _)
UnderUpTo(p, n) ==
    IF n = 0 THEN <<>>
    ELSE IF IsDomainLine(output[n]) /\ OwnerOf(n) = p
         THEN Append(UnderUpTo(p, n - 1), <<output[n][3]>>)
         ELSE UnderUpTo(p, n - 1)

Under(p) == UnderUpTo(p, Len(output))

HeaderNames == {output[i][4] : i \in {j \in DOMAIN output : IsHeader(output[j])}}

\* the domain lines that have a header before them
LinesUnder(P) == {i \in DOMAIN output : IsDomainLine(output[i]) /\ OwnerOf(i) \in P}

ExampleOutput ==
    <<HeaderLine("proj-a"), DomainLine("x.com"), DomainLine("y.com"),
      HeaderLine("proj-b"), DomainLine("z.com")>>

AssignParsed == mode = "assign" /\ pc \in {"summary", "exited"}

\* C13 (as stated): the Assign parser puts every "- <domain>" line under the
\* project of the most recent header, for any project names; the example
\* gives {proj-a: [x.com, y.com], proj-b: [z.com]} and a count of 3.
C13_AnyProjectNames ==
    AssignParsed =>
        /\ \A p \in HeaderNames : <<p>> \in DOMAIN payload /\ payload[<<p>>] = Under(p)
        /\ phase_results["assign"].count = Cardinality(LinesUnder(HeaderNames))
        /\ output = ExampleOutput => phase_results["assign"].count = 3

\* C13 (amended): the Assign parser puts a "- <domain>" line under the
\* project of the most recent header when that project is a value of the
\* project mapping, and drops it otherwise; the result has a list, possibly
\* empty, for every mapped project.  With proj-a and proj-b mapped the
\* example gives proj-a: [x.com, y.com], proj-b: [z.com] and a count of 3;
\* with the built-in mapping it gives a count of 0.
C13_MappedProjectNames ==
    AssignParsed =>
        LET mapped == Range(project_mapping(config))
        IN  /\ DOMAIN payload = {<<p>> : p \in mapped}
            /\ \A p \in mapped : payload[<<p>>] = Under(p)
            /\ phase_results["assign"].count = Cardinality(LinesUnder(mapped))
            /\ results.domains_assigned = phase_results["assign"].count
            /\ output = ExampleOutput =>
                 IF config.has_families
                 THEN /\ payload[<<"proj-a">>] = << <<"x.com">>, <<"y.com">> >>
                      /\ payload[<<"proj-b">>] = << <<"z.com">> >>
                      /\ phase_results["assign"].count = 3
                 ELSE phase_results["assign"].count = 0

C13_Witness ==
    /\ AssignParsed
    /\ output = ExampleOutput
    /\ config.has_families
    /\ phase_results["assign"].count = 3

----------------------------------------------------------------------------
(* Reading the verifier's output line by line *)

TaggedWith(l, tag) == Contains(l, <<tag>>) /\ Contains(l, Delimiter)

\* the domain name a verifier line carries
NameIn(l) == CHOOSE d \in {"x.com", "y.com"} : Contains(l, <<d>>)

\* the domains of the lines tagged `tag` among the first n, in input order
RECURSIVE TaggedUpTo(_, _)
TaggedUpTo(tag, n) ==
    IF n = 0 THEN <<>>
    ELSE IF TaggedWith(output[n], tag)
         THEN Append(TaggedUpTo(tag, n - 1), <<NameIn(output[n])>>)
         ELSE TaggedUpTo(tag, n - 1)

VerifyParsed == mode = "verify" /\ pc \in {"summary", "exited"}

\* C14: the Verify parser puts, in input order, the domain of every line
\* tagged [SUCCESS] and holding " - " into verified_domains and that of every
\* line tagged [FAILED] into failed_domains, and ignores all other lines;
\* the counts are the lengths of the two lists.
C14_VerifyLists ==
    VerifyParsed =>
        /\ phase_results["verify"].success
        /\ payload.verified_domains = TaggedUpTo("[SUCCESS]", Len(output))
        /\ payload.failed_domains = TaggedUpTo("[FAILED]", Len(output))
        /\ phase_results["verify"].count = Len(payload.verified_domains)
        /\ phase_results["verify"].failed = Len(payload.failed_domains)

----------------------------------------------------------------------------
(* The whole pipeline *)

ExecsOf(c) == {i \in DOMAIN trace : trace[i].ev = "exec" /\ trace[i].by = c}

AllSucceeded ==
    /\ \A ph \in PhaseNames : phase_results[ph].invoked /\ phase_results[ph].success
    /\ FailedSaves = {}
    /\ Invoked("notify") /\ FailedExecs("notify") = {}

\* C15: in a full-pipeline run where all four commands exit zero with
\* well-formed output and the writer and the notifier succeed, the final Run
\* Summary's counts are the quantities the phases parsed, errors is empty and
\* success is true, however many domains the verifier tagged [FAILED].
C15_EndToEnd ==
    (mode = "full" /\ RunOver /\ AllSucceeded) =>
        /\ results.domains_fetched = phase_results["fetch"].count
        /\ results.families_identified = Len(phase_results["categorize"].families)
        /\ results.domains_categorized = SumSeq(phase_results["categorize"].families)
        /\ results.domains_assigned = phase_results["assign"].count
        /\ results.domains_verified = phase_results["verify"].count
        /\ results.errors = <<>>
        /\ results.success

C15_Witness ==
    /\ mode = "full" /\ pc = "exited" /\ AllSucceeded
    /\ results.domains_fetched = MaxDomains
    /\ results.families_identified = MaxFamilies
    /\ results.domains_verified = 1
    /\ phase_results["verify"].failed = 1
    /\ exit_code = 0

PhaseCalls == UNION {CallsOf(ph) : ph \in PhaseNames}

\* C16: in every full-pipeline run the operations occur in the order Fetch,
\* Categorize, Assign, Verify, Report Writer, Notifier: every phase invocation
\* precedes the first Report Writer invocation, the Report Writer is invoked
\* before the Notifier, and the Notifier is invoked in every run.
C16_OrderAndNotifier ==
    mode = "full" =>
        /\ \A ph \in PhaseNames : \A q \in Later(ph) :
             \A i \in CallsOf(ph), j \in CallsOf(q) : i < j
        /\ \A i \in PhaseCalls, j \in CallsOf("save") : i < j
        /\ Invoked("notify") =>
             /\ Invoked("save")
             /\ Min(CallsOf("save")) < Min(CallsOf("notify"))
        /\ RunOver => Invoked("notify")

----------------------------------------------------------------------------
(* The fields of the Run Summary *)

\* the phase that owns each count
Owner ==
    [domains_fetched |-> "fetch", domains_categorized |-> "categorize",
     domains_assigned |-> "assign", domains_verified |-> "verify"]

\* positions where self.results[key] was assigned
WritesOf(key) == {i \in DOMAIN trace : trace[i].ev = "write_count" /\ trace[i].arg = key}

\* a step keeps every count from decreasing and changes it only inside the
\* owning phase; every assignment recorded so far is the owner's
OwnedAndGrowing ==
    \A key \in DOMAIN Owner :
        /\ results'[key] >= results[key]
        /\ results'[key] # results[key] => pc = Owner[key]
        /\ \A i \in WritesOf(key)' : trace'[i].by = Owner[key]

\* C17 (as stated): each of the counts fetched, categorized, assigned and
\* verified never decreases, is written only by its owning phase, and is
\* written exactly once by that phase when the phase is invoked.
C17_WrittenExactlyOnce ==
    [][/\ OwnedAndGrowing
       /\ \A key \in DOMAIN Owner :
            Invoked(Owner[key])' => Cardinality(WritesOf(key)') = 1]_vars

\* C17 (amended): each count never decreases and is written only by its
\* owning phase, at most once: exactly once when the phase returns success,
\* never when the phase is not invoked, and possibly not at all when the
\* phase fails.
C17_WrittenAtMostOnce ==
    [][/\ OwnedAndGrowing
       /\ \A key \in DOMAIN Owner :
            /\ Cardinality(WritesOf(key)') <= 1
            /\ ~Invoked(Owner[key])' => WritesOf(key)' = {}
            /\ phase_results'[Owner[key]].success => Cardinality(WritesOf(key)') = 1]_vars

C17_Witness ==
    /\ mode = "full" /\ RunOver
    /\ Cardinality(WritesOf("domains_fetched")) = 1 /\ results.domains_fetched > 0
    /\ Invoked("categorize") /\ ~phase_results["categorize"].success
    /\ WritesOf("domains_categorized") = {}

IsPrefix(s, t) == Len(s) <= Len(t) /\ SubSeq(t, 1, Len(s)) = s

\* C18: errors is append-only: across every step of a run the previous value
\* of errors is a prefix of the new value.
C18_ErrorsAppendOnly == [][IsPrefix(results.errors, results'.errors)]_vars

C18_Witness ==
    /\ Len(results.errors) = 4
    /\ results.errors[1].text = "Command failed"
    /\ results.errors[2].text = FailureText["assign"]
    /\ results.errors[4].text = "Failed to update Firestore"

----------------------------------------------------------------------------
(* The controller as a state machine *)

\* the controller has left the four phase states (Done or Aborted)
Terminal == pc \notin {"main"} \cup PhaseNames

SomePhaseFailed == \E ph \in PhaseNames : Invoked(ph) /\ ~phase_results[ph].success

C19_Linear ==
    mode = "full" =>
        /\ Cardinality(PhaseCalls) <= 4
        /\ \A ph \in PhaseNames : Cardinality(CallsOf(ph)) <= 1
        /\ SomePhaseFailed =>
             /\ Terminal
             /\ \A ph \in PhaseNames :
                  (Invoked(ph) /\ ~phase_results[ph].success) =>
                      \A q \in Later(ph) : ~Invoked(q)
        /\ \A i \in PhaseCalls, j \in CallsOf("save") \cup CallsOf("notify") : i < j
        /\ (Terminal /\ ~SomePhaseFailed) => \A ph \in PhaseNames : Invoked(ph)

C20_OneCommandNoRetry ==
    \A c \in PhaseNames \cup {"notify"} :
        /\ Cardinality(ExecsOf(c)) = Cardinality(CallsOf(c))
        /\ \A i \in FailedExecs(c) : \A j \in ExecsOf(c) : j <= i

C20_Witness ==
    /\ Cardinality(FailedExecs("fetch")) = 1 /\ Cardinality(ExecsOf("fetch")) = 1
    /\ Cardinality(FailedExecs("notify")) = 1 /\ Cardinality(ExecsOf("notify")) = 1
    /\ trace[Min(FailedExecs("fetch"))].arg = "nonzero"

----------------------------------------------------------------------------
(* Lines the parsers pass over *)

DomainLinesOf == {i \in DOMAIN output : IsDomainLine(output[i])}

\* the domain lines that stand before the first header
Headerless == {i \in DomainLinesOf : HeadersBefore(i) = {}}

\* C21: in the Assign phase a "- <domain>" line that appears before any
\* "Firebase Project" header is dropped: it is in no project's list, it is
\* not counted, nothing is appended to errors and the phase returns success.
C21_HeaderlessDropped ==
    AssignParsed =>
        /\ phase_results["assign"].success
        /\ results.errors = <<>>
        /\ assignments_count(payload) <= Cardinality(DomainLinesOf \ Headerless)
        /\ phase_results["assign"].count = assignments_count(payload)
        /\ results.domains_assigned = phase_results["assign"].count
        /\ DomainLinesOf = Headerless =>
             /\ \A p \in DOMAIN payload : payload[p] = <<>>
             /\ phase_results["assign"].count = 0
        /\ \A i \in Headerless :
             (\A j \in DomainLinesOf \ Headerless : output[j] # output[i]) =>
                 \A p \in DOMAIN payload : <<output[i][3]>> \notin Range(payload[p])

C21_Witness ==
    /\ AssignParsed
    /\ Len(output) = 3
    /\ output[1] = DomainLine("x.com")
    /\ IsHeader(output[2])
    /\ output[3] = DomainLine("y.com")
    /\ phase_results["assign"].success
    /\ phase_results["assign"].count = 1
    /\ results.errors = <<>>

----------------------------------------------------------------------------
(* What a phase function hands back *)

\* the entries a step appended to errors
Appended == SubSeq(results'.errors, Len(results.errors) + 1, Len(results'.errors))

\* a step taken by phase function pc: it returns (to run_full_pipeline or to
\* main) and never raises; its result has an error exactly when success is
\* false; it appended to errors exactly when success is false
PhaseStep ==
    pc \in PhaseNames =>
        LET ret == phase_results'[pc]
        IN  /\ ret.invoked
            /\ pc' \in (PhaseNames \cup {"save", "summary"}) \ {pc}
            /\ (ret.error # "none") <=> ~ret.success
            /\ IsPrefix(results.errors, results'.errors)
            /\ ~ret.success => /\ Len(Appended) >= 1
                               /\ \A k \in DOMAIN Appended : PhaseEntry(Appended[k], pc)
                               /\ Appended[Len(Appended)] = Err(FailureText[pc], ret.error)
            /\ ret.success => Appended = <<>>

\* C22: every phase function always returns a Phase Result and never raises;
\* in the result the error field is present iff success is false; when
\* success is false at least one string was appended to errors during the
\* phase, and a phase that returns success true appended nothing.
C22_PhaseAlwaysReturns == [][PhaseStep]_vars

C22_Witness ==
    /\ mode = "full" /\ RunOver
    /\ phase_results["fetch"].success /\ phase_results["categorize"].success
    /\ phase_results["assign"].success
    /\ phase_results["verify"].invoked /\ ~phase_results["verify"].success
    /\ phase_results["verify"].error = "IndexError"
    /\ Len(results.errors) = 1

\* C23: a phase that returns success false leaves its Run Summary counters
\* at 0, whether the command failed, the output could not be parsed or the
\* staged domain list could not be written.
C23_FailedPhaseCountZero ==
    \A ph \in PhaseNames :
        (phase_results[ph].invoked /\ ~phase_results[ph].success) =>
            \A k \in DOMAIN Counters(results, ph) : Counters(results, ph)[k] = 0

----------------------------------------------------------------------------
(* The notifier's record and the entries of errors *)

\* C24: in every full-pipeline run in which the Notifier is invoked, the
\* pushed status is SUCCESS iff the Run Summary the controller returns has
\* success true, and the pushed verified count is the Run Summary's.
C24_PushedAgrees ==
    (mode = "full" /\ Invoked("notify")) =>
        /\ Len(pushed) = 1
        /\ (pushed[1].status = "SUCCESS") <=> results.success
        /\ pushed[1].status \in {"SUCCESS", "FAILURE"}
        /\ pushed[1].verified = results.domains_verified

C24_Witness ==
    /\ mode = "full" /\ pc = "exited"
    /\ FailedExecs("notify") # {}
    /\ results.errors # <<>>
    /\ pushed[1].status = "SUCCESS"
    /\ pushed[1].verified = MaxLines

\* how the command of the phase that took this step ended
StepExec == trace'[Max({i \in DOMAIN trace' : trace'[i].ev = "exec" /\ trace'[i].by = pc})].arg

CommandFailureStep ==
    pc \in PhaseNames =>
        /\ StepExec # "ok" =>
             Appended = <<Err("Command failed", pc),
                          Err(FailureText[pc], phase_results'[pc].error)>>
        /\ (StepExec = "ok" /\ ~phase_results'[pc].success) =>
             Appended = <<Err(FailureText[pc], phase_results'[pc].error)>>

NonZeroExitStep ==
    pc \in PhaseNames =>
        /\ StepExec = "nonzero" =>
             Appended = <<Err("Command failed", pc),
                          Err(FailureText[pc], "CalledProcessError")>>
        /\ StepExec = "spawnfail" =>
             Appended = <<Err(FailureText[pc], "FileNotFoundError")>>
        /\ (StepExec = "ok" /\ ~phase_results'[pc].success) =>
             Appended = <<Err(FailureText[pc], phase_results'[pc].error)>>
        /\ phase_results'[pc].success => Appended = <<>>

\* C25 (as stated): a command failure inside a phase appends exactly two
\* entries to errors, the executor's "Command failed" and then the phase's
\* own entry; a parse failure after a successful command appends exactly one.
C25_CommandFailureTwoEntries == [][CommandFailureStep]_vars

\* C25 (amended): a command that exits non-zero inside a phase appends
\* exactly two entries, the executor's and then the phase's; a command that
\* cannot be started appends only the phase's entry, as does a parse failure
\* after a successful command; a phase that succeeds appends none.
C25_NonZeroExitTwoEntries == [][NonZeroExitStep]_vars

\* one failure in the run, two entries in errors
C25_Witness ==
    /\ mode = "full" /\ RunOver
    /\ Cardinality(UNION {FailedExecs(c) : c \in PhaseNames \cup {"notify"}}) = 1
    /\ FailedExecs("categorize") # {}
    /\ FailedSaves = {}
    /\ Len(results.errors) = 2

\* C26: each command execution is preceded by its "run_command" audit
\* record, and each non-zero exit is followed by a "command_error" audit
\* record before the failure reaches the caller.
C26_ExecAudited ==
    \A i \in DOMAIN trace :
        trace[i].ev = "exec" =>
            /\ i > 1 /\ trace[i - 1] = log_agent_action(trace[i].by, "run_command")
            /\ trace[i].arg = "nonzero" =>
                 /\ i < Len(trace)
                 /\ trace[i + 1] = log_agent_action(trace[i].by, "command_error")
                 /\ trace[i].by \in PhaseNames =>
                      /\ i + 1 < Len(trace)
                      /\ trace[i + 2] =
                           log_agent_action(trace[i].by, AuditPrefix[trace[i].by] \o "_error")
            /\ trace[i].arg = "ok" =>
                 \A j \in DOMAIN trace :
                     trace[j] # log_agent_action(trace[i].by, "command_error")

C26_Witness ==
    /\ mode = "full" /\ RunOver
    /\ \E i \in ExecsOf("verify") :
         /\ trace[i].arg = "nonzero"
         /\ trace[i - 1] = log_agent_action("verify", "run_command")
         /\ trace[i + 1] = log_agent_action("verify", "command_error")
    /\ Cardinality(UNION {ExecsOf(c) : c \in PhaseNames \cup {"notify"}}) = 5

=============================================================================
